---------------------------- MODULE Spec2Model ----------------------------
(***************************************************************************)
(* GooglBot (main.py): the safelisted expression evaluator                 *)
(* (safe_eval_expr, solve_math_expression), the knowledge base functions   *)
(* and the chat_bot session loop.                                          *)
(*                                                                         *)
(* Texts are sequences of one-character strings.  Python values are        *)
(* records [k, a, b, s]: k is the kind ("int", "float", "func", "str",     *)
(* "none", or "exc" for a raised exception), a/b the numerator and the     *)
(* positive denominator of a number in lowest terms, s a function name, a  *)
(* string or an exception type.                                            *)
(***************************************************************************)
EXTENDS Integers, Sequences, FiniteSets, TLC

(***************************************************************************)
(* Bounds of the model.                                                    *)
(***************************************************************************)
\* Input lines read in one session before only `quit` is accepted.
MaxInputs == 2
\* Longest knowledge base drawn for the stand-alone lookup specification.
MaxKB == 2

(***************************************************************************)
(* Python values.                                                          *)
(***************************************************************************)
V(k, a, b, s) == [k |-> k, a |-> a, b |-> b, s |-> s]
NoneV         == V("none", 0, 1, "")
IntV(n)       == V("int", n, 1, "")
FuncV(name)   == V("func", 0, 1, name)
StrV(s)       == V("str", 0, 1, s)
Exc(type)     == V("exc", 0, 1, type)
\* A float whose exact value is not a rational (never produced by the inputs
\* enumerated below).
Inexact       == V("float", 0, 0, "inexact")

IsNum(v) == v.k \in {"int", "float"}
IsExc(v) == v.k = "exc"

Abs(n) == IF n < 0 THEN -n ELSE n

RECURSIVE Gcd(_, _)
Gcd(m, n) == IF n = 0 THEN m ELSE Gcd(n, m % n)

\* floor(p / q) for q # 0 (Integers' \div floors for a positive divisor).
FloorDiv(p, q) == IF q > 0 THEN p \div q ELSE (-p) \div (-q)

\* The number p/q (q # 0) of kind k, in lowest terms with a positive denominator.
Num(k, p, q) ==
    LET g  == Gcd(Abs(p), Abs(q))
        sg == IF q < 0 THEN -1 ELSE 1
    IN  V(k, sg * (p \div g), sg * (q \div g), "")

RECURSIVE IPow(_, _)
IPow(base, n) == IF n = 0 THEN 1 ELSE base * IPow(base, n - 1)

\* int op int is an int, anything else a float (operator.add/sub/mul/mod).
Kind2(x, y) == IF x.k = "int" /\ y.k = "int" THEN "int" ELSE "float"

(***************************************************************************)
(* allowed_ops: the operators of the safelist, applied as the operator     *)
(* module applies them.  A non-numeric operand (a function object, None)   *)
(* raises TypeError.                                                       *)
(***************************************************************************)
allowed_ops == {"Add", "Sub", "Mult", "Div", "Pow", "Mod", "USub"}

ApplyBinOp(op, x, y) ==
    IF ~(IsNum(x) /\ IsNum(y)) THEN Exc("TypeError")
    ELSE CASE op = "Add"  -> Num(Kind2(x, y), x.a * y.b + y.a * x.b, x.b * y.b)
           [] op = "Sub"  -> Num(Kind2(x, y), x.a * y.b - y.a * x.b, x.b * y.b)
           [] op = "Mult" -> Num(Kind2(x, y), x.a * y.a, x.b * y.b)
           [] op = "Div"  -> IF y.a = 0 THEN Exc("ZeroDivisionError")
                             ELSE Num("float", x.a * y.b, x.b * y.a)
           [] op = "Mod"  -> IF y.a = 0 THEN Exc("ZeroDivisionError")
                             ELSE LET q == FloorDiv(x.a * y.b, x.b * y.a)
                                  IN  Num(Kind2(x, y),
                                          x.a * y.b - q * y.a * x.b, x.b * y.b)
           [] op = "Pow"  -> IF y.b # 1 THEN Inexact
                             ELSE IF y.a >= 0
                                  THEN Num(Kind2(x, y), IPow(x.a, y.a), IPow(x.b, y.a))
                             ELSE IF x.a = 0 THEN Exc("ZeroDivisionError")
                             ELSE Num("float", IPow(x.b, -y.a), IPow(x.a, -y.a))

ApplyUnaryOp(op, x) ==
    IF ~IsNum(x) THEN Exc("TypeError") ELSE Num(x.k, -x.a, x.b)

(***************************************************************************)
(* allowed_funcs: every public name of the math module.  The model keeps   *)
(* gcd and fabs (functions) and pi and e, which dir(math) lists too and    *)
(* which are floats, not functions.  pi and e are rational approximations. *)
(***************************************************************************)
MathPi == V("float", 355, 113, "")
MathE  == V("float", 193, 71, "")

FuncNames == {"gcd", "fabs", "pi", "e"}
allowed_funcs == [name \in FuncNames |->
                    CASE name = "pi" -> MathPi
                      [] name = "e"  -> MathE
                      [] OTHER       -> FuncV(name)]

constants == [name \in {"pi", "e"} |-> IF name = "pi" THEN MathPi ELSE MathE]

RECURSIVE GcdAll(_, _)
GcdAll(args, i) == IF i > Len(args) THEN 0 ELSE Gcd(Abs(args[i].a), GcdAll(args, i + 1))

\* fn(*args) for an entry fn of allowed_funcs.
CallFunc(fn, args) ==
    IF fn.k # "func" THEN Exc("TypeError")              \* 'float' object is not callable
    ELSE IF fn.s = "gcd"
         THEN IF \E i \in 1..Len(args) : args[i].k # "int"
              THEN Exc("TypeError")
              ELSE IntV(GcdAll(args, 1))
    ELSE \* fabs
         IF Len(args) # 1 \/ ~IsNum(args[1]) THEN Exc("TypeError")
         ELSE Num("float", Abs(args[1].a), args[1].b)

(***************************************************************************)
(* Syntax trees (the ast module's node classes).                           *)
(***************************************************************************)
Constant(v)        == [type |-> "Constant", value |-> v]
Name(id)           == [type |-> "Name", id |-> id]
BinOp(l, op, r)    == [type |-> "BinOp", op |-> op, left |-> l, right |-> r]
UnaryOp(op, x)     == [type |-> "UnaryOp", op |-> op, operand |-> x]
Call(func, args)   == [type |-> "Call", func |-> func, args |-> args]
Attribute(x, attr) == [type |-> "Attribute", value |-> x, attr |-> attr]
Tuple(elts)        == [type |-> "Tuple", elts |-> elts]
Assign(targets, x) == [type |-> "Assign", targets |-> targets, value |-> x]
Expr(x)            == [type |-> "Expr", value |-> x]
Pass               == [type |-> "Pass"]


(***************************************************************************)
(* safe_eval_expr.  The result is [v, calls]: v the value returned or the  *)
(* exception raised, calls the functions invoked on the way, in order,     *)
(* each with the callee expression of its Call node.                       *)
(***************************************************************************)
Ret(v, calls) == [v |-> v, calls |-> calls]

\* Mutant of ResolveName: the registries are consulted before the variables.
ResolveName_FunctionsFirst(id, vars) ==
    IF id \in DOMAIN allowed_funcs THEN allowed_funcs[id]
    ELSE IF id \in DOMAIN constants THEN constants[id]
    ELSE IF id \in DOMAIN vars THEN vars[id]
    ELSE Exc("ValueError: unknown")

\* The Name branch: variables, then allowed_funcs, then constants.
ResolveName(id, vars) ==
    IF id \in DOMAIN vars THEN vars[id]
    ELSE IF id \in DOMAIN allowed_funcs THEN allowed_funcs[id]
    ELSE IF id \in DOMAIN constants THEN constants[id]
    ELSE Exc("ValueError: unknown")

\* Mutant of Callee: the callee's last name is looked up, so that m.gcd is
\* taken for gcd.
Callee_ThroughAttribute(func) ==
    LET name == IF func.type = "Attribute" THEN func.attr ELSE func.id
    IN  IF name \in DOMAIN allowed_funcs THEN allowed_funcs[name]
        ELSE Exc("ValueError: not allowed")

\* func_name = node.func.id and the lookup of func_name in allowed_funcs:
\* only a Name has .id.
Callee(func) ==
    IF func.type # "Name" THEN Exc("AttributeError")
    ELSE IF func.id \in DOMAIN allowed_funcs THEN allowed_funcs[func.id]
    ELSE Exc("ValueError: not allowed")

RECURSIVE safe_eval_expr(_, _)
RECURSIVE EvalArgs(_, _, _)

\* [safe_eval_expr(arg) for arg in node.args], from argument i on: the list
\* comprehension stops at the first argument that raises.
EvalArgs(args, i, vars) ==
    IF i > Len(args) THEN [vs |-> <<>>, exc |-> NoneV, calls |-> <<>>]
    ELSE LET r == safe_eval_expr(args[i], vars)
         IN  IF IsExc(r.v) THEN [vs |-> <<>>, exc |-> r.v, calls |-> r.calls]
             ELSE LET rest == EvalArgs(args, i + 1, vars)
                  IN  [vs    |-> <<r.v>> \o rest.vs,
                       exc   |-> rest.exc,
                       calls |-> r.calls \o rest.calls]

safe_eval_expr(node, vars) ==
    IF node.type = "Constant" THEN Ret(node.value, <<>>)
    ELSE IF node.type = "Name" THEN Ret(ResolveName(node.id, vars), <<>>)
    ELSE IF node.type = "BinOp" /\ node.op \in allowed_ops THEN
        LET l == safe_eval_expr(node.left, vars)
        IN  IF IsExc(l.v) THEN l
            ELSE LET r == safe_eval_expr(node.right, vars)
                 IN  IF IsExc(r.v) THEN Ret(r.v, l.calls \o r.calls)
                     ELSE Ret(ApplyBinOp(node.op, l.v, r.v), l.calls \o r.calls)
    ELSE IF node.type = "UnaryOp" /\ node.op \in allowed_ops THEN
        LET x == safe_eval_expr(node.operand, vars)
        IN  IF IsExc(x.v) THEN x ELSE Ret(ApplyUnaryOp(node.op, x.v), x.calls)
    ELSE IF node.type = "Call" THEN
        LET fn == Callee(node.func)
        IN  IF IsExc(fn) THEN Ret(fn, <<>>)
            ELSE LET as == EvalArgs(node.args, 1, vars)
                 IN  IF IsExc(as.exc) THEN Ret(as.exc, as.calls)
                     ELSE Ret(CallFunc(fn, as.vs),
                              as.calls \o <<[func |-> node.func, fn |-> fn]>>)
    ELSE Ret(Exc("ValueError: unsupported"), <<>>)

(***************************************************************************)
(* One pass of the for loop of solve_math_expression over `node`, with the *)
(* table `vars`.  at names the line the function returns from when the     *)
(* pass ends it: "L63" (Invalid assignment), "L70" (Unsupported            *)
(* statement), "L73" (except Exception: return None), "" when the loop     *)
(* goes on.  result is the local `result` after the pass, or the value     *)
(* returned.                                                               *)
(***************************************************************************)
\* Mutant of Bind: a name already bound keeps its value (setdefault).
Bind_KeepFirst(vars, name, val) ==
    [n \in DOMAIN vars \cup {name} |-> IF n \in DOMAIN vars THEN vars[n] ELSE val]

Bind(vars, name, val) ==
    [n \in DOMAIN vars \cup {name} |-> IF n = name THEN val ELSE vars[n]]

\* Mutant of ExecNode: the target is bound (to None) before the right-hand
\* side is evaluated, and stays bound when the evaluation raises.
ExecNode_BindOnFailure(node, vars, result) ==
    IF node.type = "Assign" THEN
        IF Len(node.targets) # 1 \/ node.targets[1].type # "Name"
        THEN [at |-> "L63", vars |-> vars, result |-> StrV("Invalid assignment"),
              calls |-> <<>>]
        ELSE LET r == safe_eval_expr(node.value, vars)
                 name == node.targets[1].id
             IN  IF IsExc(r.v)
                 THEN [at |-> "L73",
                       vars |-> [n \in DOMAIN vars \cup {name} |->
                                    IF n = name THEN NoneV ELSE vars[n]],
                       result |-> NoneV, calls |-> r.calls]
                 ELSE [at |-> "",
                       vars |-> [n \in DOMAIN vars \cup {name} |->
                                    IF n = name THEN r.v ELSE vars[n]],
                       result |-> r.v, calls |-> r.calls]
    ELSE IF node.type = "Expr" THEN
        LET r == safe_eval_expr(node.value, vars)
        IN  IF IsExc(r.v)
            THEN [at |-> "L73", vars |-> vars, result |-> NoneV, calls |-> r.calls]
            ELSE [at |-> "", vars |-> vars, result |-> r.v, calls |-> r.calls]
    ELSE [at |-> "L70", vars |-> vars, result |-> StrV("Unsupported statement"),
          calls |-> <<>>]

ExecNode(node, vars, result) ==
    IF node.type = "Assign" THEN
        IF Len(node.targets) # 1 \/ node.targets[1].type # "Name"
        THEN [at |-> "L63", vars |-> vars, result |-> StrV("Invalid assignment"),
              calls |-> <<>>]
        ELSE LET r == safe_eval_expr(node.value, vars)
             IN  IF IsExc(r.v)
                 THEN [at |-> "L73", vars |-> vars, result |-> NoneV, calls |-> r.calls]
                 ELSE LET bound == Bind(vars, node.targets[1].id, r.v)
                      IN  [at |-> "", vars |-> bound,
                           result |-> bound[node.targets[1].id], calls |-> r.calls]
    ELSE IF node.type = "Expr" THEN
        LET r == safe_eval_expr(node.value, vars)
        IN  IF IsExc(r.v)
            THEN [at |-> "L73", vars |-> vars, result |-> NoneV, calls |-> r.calls]
            ELSE [at |-> "", vars |-> vars, result |-> r.v, calls |-> r.calls]
    ELSE [at |-> "L70", vars |-> vars, result |-> StrV("Unsupported statement"),
          calls |-> <<>>]

(***************************************************************************)
(* Texts: str.strip, str.lower, str.replace("^", "**") and the order of    *)
(* strings (by code point).                                                *)
(***************************************************************************)
Whitespace == {" ", "\t"}

RECURSIVE LStrip(_)
LStrip(t) == IF t # <<>> /\ Head(t) \in Whitespace THEN LStrip(Tail(t)) ELSE t

RECURSIVE RStrip(_)
RStrip(t) == IF t # <<>> /\ t[Len(t)] \in Whitespace
             THEN RStrip(SubSeq(t, 1, Len(t) - 1)) ELSE t

Strip(t) == RStrip(LStrip(t))

UpperCase == <<"A", "B", "C", "D", "E", "F", "G", "H", "I", "J", "K", "L", "M",
               "N", "O", "P", "Q", "R", "S", "T", "U", "V", "W", "X", "Y", "Z">>
LowerCase == <<"a", "b", "c", "d", "e", "f", "g", "h", "i", "j", "k", "l", "m",
               "n", "o", "p", "q", "r", "s", "t", "u", "v", "w", "x", "y", "z">>

LowerChar(c) == IF \E i \in DOMAIN UpperCase : UpperCase[i] = c
                THEN LowerCase[CHOOSE i \in DOMAIN UpperCase : UpperCase[i] = c]
                ELSE c

Lower(t) == [i \in DOMAIN t |-> LowerChar(t[i])]

RECURSIVE ReplaceCaret(_)
ReplaceCaret(t) ==
    IF t = <<>> THEN <<>>
    ELSE IF Head(t) = "^" THEN <<"*", "*">> \o ReplaceCaret(Tail(t))
    ELSE <<Head(t)>> \o ReplaceCaret(Tail(t))

\* The characters of the inputs, in code point order.
Ascii == <<"\t", " ", "!", "'", "(", ")", "*", "+", ",", "-", ".", "/",
           "0", "1", "2", "3", "4", "5", "6", "7", "8", "9", ";", "=">>
         \o UpperCase \o <<"^">> \o LowerCase

Ord(c) == CHOOSE i \in DOMAIN Ascii : Ascii[i] = c

RECURSIVE TextLess(_, _)
TextLess(s, t) ==
    IF t = <<>> THEN FALSE
    ELSE IF s = <<>> THEN TRUE
    ELSE IF Head(s) # Head(t) THEN Ord(Head(s)) < Ord(Head(t))
    ELSE TextLess(Tail(s), Tail(t))

(***************************************************************************)
(* The input lines of the model, as typed, and ast.parse(expr,             *)
(* mode='exec') on each after strip and replace: the statement list        *)
(* Python's parser builds, or SyntaxError.                                 *)
(***************************************************************************)
Lines ==
    { <<>>,                                              \* '',
      <<"h", "i">>,                                      \* 'hi',
      <<" ", "h", "i">>,                                 \* ' hi',
      <<"h", "i", "!">>,                                 \* 'hi!',
      <<"x", "=", "5">>,                                 \* 'x=5',
      <<"x", "+", "1">>,                                 \* 'x+1',
      <<"x", "=", "z", "z">>,                            \* 'x=zz',
      <<"a", ".", "b", "=", "3">>,                       \* 'a.b=3',
      <<"a", "=", "b", "=", "3">>,                       \* 'a=b=3',
      <<"p", "a", "s", "s">>,                            \* 'pass',
      <<"x", "=", "1", ";", "p", "a", "s", "s">>,        \* 'x=1;pass',
      <<"y", "=", "2", ";", "z", "z">>,                  \* 'y=2;zz',
      <<"y", "=", "1", ";", "x", "=", "y", "+", "1", ";", "x", "*", "y">>, \* 'y=1;x=y+1;x*y',
      <<"g", "c", "d", "=", "2">>,                       \* 'gcd=2',
      <<"g", "c", "d">>,                                 \* 'gcd',
      <<"g", "c", "d", "(", "4", ",", "6", ")">>,        \* 'gcd(4,6)',
      <<"p", "i">>,                                      \* 'pi',
      <<"p", "i", "=", "3">>,                            \* 'pi=3',
      <<"f", "=", "g", "c", "d">>,                       \* 'f=gcd',
      <<"f", "(", "4", ")">>,                            \* 'f(4)',
      <<"m", ".", "g", "c", "d", "(", "4", ")">>,        \* 'm.gcd(4)',
      <<"e", "v", "a", "l", "(", "'", "1", "'", ")">>,   \* "eval('1')",
      <<"g", "c", "d", "(", "4", ")", "+", "f", "(", "2", ")">>, \* 'gcd(4)+f(2)',
      <<"f", "a", "b", "s", "(", "-", "2", ")">>,        \* 'fabs(-2)',
      <<"1", "/", "0">>,                                 \* '1/0',
      <<"2", "^", "3">>,                                 \* '2^3',
      <<"7", "/", "/", "2">> }                           \* '7//2'

QuitLines == { <<"q", "u", "i", "t">>, <<"Q", "u", "i", "t", " ">> }

\* What the user may type at the teach-me prompt.
AnswerLines == { <<"o", "k">>, <<" ", "n", "o">>, <<"S", "k", "i", "p", " ">> }

Parsed(body) == [ok |-> TRUE, body |-> body]
SyntaxError  == [ok |-> FALSE, body |-> <<>>]

ast_parse(text) ==
    CASE text = <<>> ->
             Parsed(<<>>)
      [] text = <<"h", "i">> ->
             Parsed(<<Expr(Name("hi"))>>)
      [] text = <<"h", "i", "!">> ->
             SyntaxError
      [] text = <<"x", "=", "5">> ->
             Parsed(<<Assign(<<Name("x")>>, Constant(IntV(5)))>>)
      [] text = <<"x", "+", "1">> ->
             Parsed(<<Expr(BinOp(Name("x"), "Add", Constant(IntV(1))))>>)
      [] text = <<"x", "=", "z", "z">> ->
             Parsed(<<Assign(<<Name("x")>>, Name("zz"))>>)
      [] text = <<"a", ".", "b", "=", "3">> ->
             Parsed(<<Assign(<<Attribute(Name("a"), "b")>>, Constant(IntV(3)))>>)
      [] text = <<"a", "=", "b", "=", "3">> ->
             Parsed(<<Assign(<<Name("a"), Name("b")>>, Constant(IntV(3)))>>)
      [] text = <<"p", "a", "s", "s">> ->
             Parsed(<<Pass>>)
      [] text = <<"x", "=", "1", ";", "p", "a", "s", "s">> ->
             Parsed(<<Assign(<<Name("x")>>, Constant(IntV(1))), Pass>>)
      [] text = <<"y", "=", "2", ";", "z", "z">> ->
             Parsed(<<Assign(<<Name("y")>>, Constant(IntV(2))), Expr(Name("zz"))>>)
      [] text = <<"y", "=", "1", ";", "x", "=", "y", "+", "1", ";", "x", "*", "y">> ->
             Parsed(<<Assign(<<Name("y")>>, Constant(IntV(1))), Assign(<<Name("x")>>, BinOp(Name("y"), "Add", Constant(IntV(1)))), Expr(BinOp(Name("x"), "Mult", Name("y")))>>)
      [] text = <<"g", "c", "d", "=", "2">> ->
             Parsed(<<Assign(<<Name("gcd")>>, Constant(IntV(2)))>>)
      [] text = <<"g", "c", "d">> ->
             Parsed(<<Expr(Name("gcd"))>>)
      [] text = <<"g", "c", "d", "(", "4", ",", "6", ")">> ->
             Parsed(<<Expr(Call(Name("gcd"), <<Constant(IntV(4)), Constant(IntV(6))>>))>>)
      [] text = <<"p", "i">> ->
             Parsed(<<Expr(Name("pi"))>>)
      [] text = <<"p", "i", "=", "3">> ->
             Parsed(<<Assign(<<Name("pi")>>, Constant(IntV(3)))>>)
      [] text = <<"f", "=", "g", "c", "d">> ->
             Parsed(<<Assign(<<Name("f")>>, Name("gcd"))>>)
      [] text = <<"f", "(", "4", ")">> ->
             Parsed(<<Expr(Call(Name("f"), <<Constant(IntV(4))>>))>>)
      [] text = <<"m", ".", "g", "c", "d", "(", "4", ")">> ->
             Parsed(<<Expr(Call(Attribute(Name("m"), "gcd"), <<Constant(IntV(4))>>))>>)
      [] text = <<"e", "v", "a", "l", "(", "'", "1", "'", ")">> ->
             Parsed(<<Expr(Call(Name("eval"), <<Constant(StrV("1"))>>))>>)
      [] text = <<"g", "c", "d", "(", "4", ")", "+", "f", "(", "2", ")">> ->
             Parsed(<<Expr(BinOp(Call(Name("gcd"), <<Constant(IntV(4))>>), "Add", Call(Name("f"), <<Constant(IntV(2))>>)))>>)
      [] text = <<"f", "a", "b", "s", "(", "-", "2", ")">> ->
             Parsed(<<Expr(Call(Name("fabs"), <<UnaryOp("USub", Constant(IntV(2)))>>))>>)
      [] text = <<"1", "/", "0">> ->
             Parsed(<<Expr(BinOp(Constant(IntV(1)), "Div", Constant(IntV(0))))>>)
      [] text = <<"2", "*", "*", "3">> ->
             Parsed(<<Expr(BinOp(Constant(IntV(2)), "Pow", Constant(IntV(3))))>>)
      [] text = <<"7", "/", "/", "2">> ->
             Parsed(<<Expr(BinOp(Constant(IntV(7)), "FloorDiv", Constant(IntV(2))))>>)
      [] OTHER -> SyntaxError

(***************************************************************************)
(* difflib.get_close_matches(word, possibilities, n=1, cutoff=0.6), as the *)
(* standard library computes it: SequenceMatcher.ratio() is 2*M/T, M the   *)
(* total size of the matching blocks (the longest common block, earliest   *)
(* in the first text and then in the second, and recursively the blocks to *)
(* its left and to its right), T the two lengths together, and 1.0 when    *)
(* both texts are empty.  (real_quick_ratio and quick_ratio are upper      *)
(* bounds of ratio: they filter nothing ratio would keep.)                 *)
(***************************************************************************)
CutoffNum == 6
CutoffDen == 10

\* An optional text: None, or a str.
NoneT    == [some |-> FALSE, text |-> <<>>]
SomeT(t) == [some |-> TRUE, text |-> t]

RECURSIVE CommonLen(_, _, _, _)
CommonLen(a, b, i, j) ==
    IF i > Len(a) \/ j > Len(b) \/ a[i] # b[j] THEN 0
    ELSE 1 + CommonLen(a, b, i + 1, j + 1)

LongestMatch(a, b) ==
    LET blocks == {<<i, j, CommonLen(a, b, i, j)>> : i \in 1..Len(a), j \in 1..Len(b)}
        better(x, y) == \/ x[3] > y[3]
                        \/ x[3] = y[3] /\ x[1] < y[1]
                        \/ x[3] = y[3] /\ x[1] = y[1] /\ x[2] < y[2]
    IN  CHOOSE x \in blocks : \A y \in blocks \ {x} : better(x, y)

RECURSIVE MatchCount(_, _)
MatchCount(a, b) ==
    IF a = <<>> \/ b = <<>> THEN 0
    ELSE LET m == LongestMatch(a, b)
         IN  IF m[3] = 0 THEN 0
             ELSE m[3]
                  + MatchCount(SubSeq(a, 1, m[1] - 1), SubSeq(b, 1, m[2] - 1))
                  + MatchCount(SubSeq(a, m[1] + m[3], Len(a)),
                               SubSeq(b, m[2] + m[3], Len(b)))

\* ratio() of SequenceMatcher(a=x, b=word) as the fraction <<num, den>>.
Ratio(x, word) ==
    IF Len(x) + Len(word) = 0 THEN <<1, 1>>
    ELSE <<2 * MatchCount(x, word), Len(x) + Len(word)>>

\* heapq.nlargest(1, result) over the (score, x) pairs: the greatest score,
\* and of equal scores the greatest string.
get_close_matches(word, possibilities) ==
    LET cand == {i \in DOMAIN possibilities :
                    LET r == Ratio(possibilities[i], word)
                    IN  r[1] * CutoffDen >= CutoffNum * r[2]}
        above(i, j) ==
            LET ri == Ratio(possibilities[i], word)
                rj == Ratio(possibilities[j], word)
            IN  \/ ri[1] * rj[2] > rj[1] * ri[2]
                \/ /\ ri[1] * rj[2] = rj[1] * ri[2]
                   /\ ~TextLess(possibilities[i], possibilities[j])
    IN  IF cand = {} THEN <<>>
        ELSE <<possibilities[CHOOSE i \in cand : \A j \in cand : above(i, j)]>>

find_best_match(user_question, questions) ==
    LET matches == get_close_matches(user_question, questions)
    IN  IF matches # <<>> THEN SomeT(matches[1]) ELSE NoneT

\* Python's truth value of best_match: None and "" are false.
Truthy(o) == o.some /\ o.text # <<>>

(***************************************************************************)
(* The knowledge base: the list knowledge_base["questions"] of entries     *)
(* [question, answer], and the file knowledge_base.json.                   *)
(***************************************************************************)
Entry(q, a) == [question |-> q, answer |-> a]

Questions(kb) == [i \in DOMAIN kb |-> kb[i].question]

load_knowledge_base(f) == IF f.exists THEN f.data ELSE <<>>

\* Mutant of save_knowledge_base: the file is written without the last entry
\* (saved before the append).
save_knowledge_base_Stale(data) ==
    [exists |-> TRUE, data |-> SubSeq(data, 1, Len(data) - 1)]

save_knowledge_base(data) == [exists |-> TRUE, data |-> data]

RECURSIVE ScanFrom(_, _, _)
ScanFrom(question, kb, i) ==
    IF i > Len(kb) THEN NoneT
    ELSE IF kb[i].question = question THEN SomeT(kb[i].answer)
    ELSE ScanFrom(question, kb, i + 1)

\* Mutant of get_answer_for_question: the last matching entry wins.
get_answer_for_question_Last(question, kb) ==
    LET hits == {i \in DOMAIN kb : kb[i].question = question}
    IN  IF hits = {} THEN NoneT
        ELSE SomeT(kb[CHOOSE i \in hits : \A j \in hits : j <= i].answer)

get_answer_for_question(question, kb) == ScanFrom(question, kb, 1)

(***************************************************************************)
(* The session: chat_bot and, step by step, the solve_math_expression call *)
(* it makes on every line.                                                 *)
(***************************************************************************)
VARIABLES
    variables,       \* the global Variable Table
    knowledge_base,  \* chat_bot's knowledge_base["questions"]
    file,            \* knowledge_base.json: [exists, data]
    pc,              \* where the session is
    user_input,      \* chat_bot's user_input (stripped)
    body,            \* parsed.body of the line being solved
    idx,             \* position of the for loop in body
    result,          \* solve_math_expression's local result
    math_result,     \* what solve_math_expression returned
    ret_at,          \* the line it returned from: L63, L70, L71 or L73
    best_match,      \* chat_bot's best_match
    new_answer,      \* chat_bot's new_answer (stripped)
    output,          \* the last thing printed
    turns,           \* lines read so far
    calls,           \* history: the functions invoked by the last statement
    evaluated,       \* history: the values of the statements of this line
    assigned         \* history: name -> value of the last assignment that succeeded

vars == <<variables, knowledge_base, file, pc, user_input, body, idx, result,
          math_result, ret_at, best_match, new_answer, output, turns, calls,
          evaluated, assigned>>

Out(kind, value, text) == [kind |-> kind, value |-> value, text |-> text]

EmptyTable == [n \in {} |-> NoneV]

\* knowledge_base.json at startup: absent, or holding earlier sessions' entries
\* (questions may repeat).
InitFiles ==
    { [exists |-> FALSE, data |-> <<>>],
      [exists |-> TRUE,  data |-> <<Entry(<<"h", "i">>, <<"y", "o">>)>>],
      [exists |-> TRUE,  data |-> <<Entry(<<"h", "i">>, <<"y", "o">>),
                                    Entry(<<"h", "i">>, <<"n", "o">>)>>] }

Init ==
    /\ file \in InitFiles
    /\ knowledge_base = load_knowledge_base(file)
    /\ variables = EmptyTable
    /\ pc = "input"
    /\ user_input = <<>>
    /\ body = <<>>
    /\ idx = 1
    /\ result = NoneV
    /\ math_result = NoneV
    /\ ret_at = ""
    /\ best_match = NoneT
    /\ new_answer = <<>>
    /\ output = Out("hello", NoneV, NoneT)
    /\ turns = 0
    /\ calls = <<>>
    /\ evaluated = <<>>
    /\ assigned = EmptyTable

\* `quit` (any case) ends the session.
Quit(line) ==
    /\ pc = "input"
    /\ Lower(Strip(line)) = <<"q", "u", "i", "t">>
    /\ user_input' = Strip(line)
    /\ pc' = "done"
    /\ UNCHANGED <<variables, knowledge_base, file, body, idx, result, math_result,
                   ret_at, best_match, new_answer, output, turns, calls, evaluated,
                   assigned>>

\* Any other line: solve_math_expression starts (replace, parse).  A
\* SyntaxError is caught by `except Exception` like any other.
Input(line) ==
    /\ pc = "input"
    /\ turns < MaxInputs
    /\ Lower(Strip(line)) # <<"q", "u", "i", "t">>
    /\ user_input' = Strip(line)
    /\ turns' = turns + 1
    /\ LET parsed == ast_parse(ReplaceCaret(Strip(line)))
       IN  /\ body' = parsed.body
           /\ IF parsed.ok
              THEN pc' = "solve" /\ ret_at' = ""
              ELSE pc' = "dispatch" /\ ret_at' = "L73"
    /\ idx' = 1
    /\ result' = NoneV
    /\ math_result' = NoneV
    /\ calls' = <<>>
    /\ evaluated' = <<>>
    /\ UNCHANGED <<variables, knowledge_base, file, best_match, new_answer, output,
                   assigned>>

\* Mutant of LoopDone: `return result` inside the loop, after the first statement.
LoopDone_AfterFirst(i, stmts) == i > Len(stmts) \/ i > 1

\* The for loop is over when every statement of the body has run.
LoopDone(i, stmts) == i > Len(stmts)

\* The value of an assignment or expression statement: that of its expression
\* in the table the statement finds.
StmtValue(node, tbl) == safe_eval_expr(node.value, tbl).v

\* One statement of the body.
ForNode ==
    /\ pc = "solve"
    /\ ~LoopDone(idx, body)
    /\ LET node == body[idx]
           e    == ExecNode(node, variables, result)
       IN  /\ variables' = e.vars
           /\ calls' = e.calls
           /\ IF e.at = ""
              THEN /\ result' = e.result
                   /\ idx' = idx + 1
                   /\ evaluated' = Append(evaluated, StmtValue(node, variables))
                   /\ assigned' = IF node.type = "Assign"
                                  THEN (node.targets[1].id :> StmtValue(node, variables))
                                       @@ assigned
                                  ELSE assigned
                   /\ UNCHANGED <<pc, math_result, ret_at>>
              ELSE /\ math_result' = e.result
                   /\ ret_at' = e.at
                   /\ pc' = "dispatch"
                   /\ UNCHANGED <<result, idx, evaluated, assigned>>
    /\ UNCHANGED <<knowledge_base, file, user_input, body, best_match, new_answer,
                   output, turns>>

\* return result
ReturnResult ==
    /\ pc = "solve"
    /\ LoopDone(idx, body)
    /\ math_result' = result
    /\ ret_at' = "L71"
    /\ pc' = "dispatch"
    /\ UNCHANGED <<variables, knowledge_base, file, user_input, body, idx, result,
                   best_match, new_answer, output, turns, calls, evaluated, assigned>>

\* 1. math_result is not None: print it.
MathStage ==
    /\ pc = "dispatch"
    /\ math_result # NoneV
    /\ output' = Out("math", math_result, NoneT)
    /\ pc' = "input"
    /\ UNCHANGED <<variables, knowledge_base, file, user_input, body, idx, result,
                   math_result, ret_at, best_match, new_answer, turns, calls,
                   evaluated, assigned>>

\* 2. The knowledge base: print the answer of the best match, if best_match
\* is true; 3. otherwise ask to be taught.
KnowledgeStage ==
    /\ pc = "dispatch"
    /\ math_result = NoneV
    /\ LET bm == find_best_match(user_input, Questions(knowledge_base))
       IN  /\ best_match' = bm
           /\ IF Truthy(bm)
              THEN /\ output' = Out("answer", NoneV,
                                    get_answer_for_question(bm.text, knowledge_base))
                   /\ pc' = "input"
              ELSE /\ output' = Out("teach", NoneV, NoneT)
                   /\ pc' = "teach"
    /\ UNCHANGED <<variables, knowledge_base, file, user_input, body, idx, result,
                   math_result, ret_at, new_answer, turns, calls, evaluated, assigned>>

\* The answer typed at the teach-me prompt: `skip`, or an entry to append
\* and save.
Teach(line) ==
    /\ pc = "teach"
    /\ new_answer' = Strip(line)
    /\ IF Lower(Strip(line)) = <<"s", "k", "i", "p">>
       THEN /\ output' = Out("skip", NoneV, NoneT)
            /\ UNCHANGED <<knowledge_base, file>>
       ELSE /\ knowledge_base' = Append(knowledge_base, Entry(user_input, Strip(line)))
            /\ file' = save_knowledge_base(knowledge_base')
            /\ output' = Out("learned", NoneV, NoneT)
    /\ pc' = "input"
    /\ UNCHANGED <<variables, user_input, body, idx, result, math_result, ret_at,
                   best_match, turns, calls, evaluated, assigned>>

Next ==
    \/ \E line \in QuitLines : Quit(line)
    \/ \E line \in Lines : Input(line)
    \/ ForNode
    \/ ReturnResult
    \/ MathStage
    \/ KnowledgeStage
    \/ \E line \in AnswerLines : Teach(line)

Spec == Init /\ [][Next]_vars

(***************************************************************************)
(* get_answer_for_question on its own: every knowledge base of at most     *)
(* MaxKB entries and every question, present or absent.                    *)
(***************************************************************************)
LookupQuestions == { <<"h", "i">>, <<"h", "a">>, <<"h", "o">> }
LookupEntries ==
    { Entry(q, a) : q \in { <<"h", "i">>, <<"h", "a">> },
                    a \in { <<"y", "o">>, <<"n", "o">> } }
LookupKBs == UNION { [1..n -> LookupEntries] : n \in 0..MaxKB }

InitLookup ==
    /\ knowledge_base \in LookupKBs
    /\ user_input \in LookupQuestions
    /\ pc = "lookup"
    /\ file = save_knowledge_base(knowledge_base)
    /\ variables = EmptyTable
    /\ body = <<>>
    /\ idx = 1
    /\ result = NoneV
    /\ math_result = NoneV
    /\ ret_at = ""
    /\ best_match = NoneT
    /\ new_answer = <<>>
    /\ output = Out("hello", NoneV, NoneT)
    /\ turns = 0
    /\ calls = <<>>
    /\ evaluated = <<>>
    /\ assigned = EmptyTable

Lookup ==
    /\ pc = "lookup"
    /\ output' = Out("answer", NoneV,
                     get_answer_for_question(user_input, knowledge_base))
    /\ pc' = "looked"
    /\ UNCHANGED <<variables, knowledge_base, file, user_input, body, idx, result,
                   math_result, ret_at, best_match, new_answer, turns, calls,
                   evaluated, assigned>>

NextLookup == Lookup

SpecLookup == InitLookup /\ [][NextLookup]_vars

(***************************************************************************)
(* Properties.                                                             *)
(***************************************************************************)
\* The statement the for loop stopped at, or has just run.
IsEvaluated(node) ==
    \/ node.type = "Expr"
    \/ node.type = "Assign" /\ Len(node.targets) = 1 /\ node.targets[1].type = "Name"

\* A Call whose callee is not a bare name of allowed_funcs, anywhere in an
\* expression.
RECURSIVE HasBadCall(_)
HasBadCall(node) ==
    CASE node.type = "BinOp"   -> HasBadCall(node.left) \/ HasBadCall(node.right)
      [] node.type = "UnaryOp" -> HasBadCall(node.operand)
      [] node.type = "Call"    ->
            \/ node.func.type # "Name"
            \/ node.func.id \notin DOMAIN allowed_funcs
            \/ \E i \in DOMAIN node.args : HasBadCall(node.args[i])
      [] OTHER -> FALSE

\* C1: whenever a statement of the input fails or is rejected
\* (solve_math_expression leaves by line 63, 70 or 73), it returns None, so that
\* the session prints no math result for that line.
C1_FailureReturnsNone ==
    (pc = "dispatch" /\ ret_at \in {"L63", "L70", "L73"}) => math_result = NoneV

\* C2: every function invoked by a Call node is the allowed_funcs entry of the
\* bare name that is the node's callee; a statement holding a call whose callee
\* is not such a name makes solve_math_expression return None (line 73).
C2_OnlyRegistryFunctionsInvoked ==
    /\ \A i \in DOMAIN calls :
          /\ calls[i].func.type = "Name"
          /\ calls[i].func.id \in DOMAIN allowed_funcs
          /\ calls[i].fn = allowed_funcs[calls[i].func.id]
    /\ pc = "dispatch" =>
          \A i \in DOMAIN body :
              (i <= idx /\ IsEvaluated(body[i]) /\ HasBadCall(body[i].value))
                  => (math_result = NoneV /\ ret_at = "L73" /\ idx = i)

\* C2 witness: with f bound to a function object, gcd(4)+f(2) invoked gcd,
\* refused f, and returned None.
C2_Witness ==
    /\ pc = "dispatch"
    /\ user_input = <<"g", "c", "d", "(", "4", ")", "+", "f", "(", "2", ")">>
    /\ "f" \in DOMAIN variables /\ variables["f"].k = "func"
    /\ Len(calls) = 1
    /\ math_result = NoneV

\* C3: a line that is one bare identifier yields the value last assigned to the
\* name if there is one, else its allowed_funcs entry, else its constants entry,
\* else None by line 73.
C3_NameResolutionOrder ==
    (pc = "dispatch" /\ Len(body) = 1 /\ body[1].type = "Expr"
                     /\ body[1].value.type = "Name") =>
        LET id == body[1].value.id
        IN  IF id \in DOMAIN assigned
                THEN math_result = assigned[id] /\ ret_at = "L71"
            ELSE IF id \in DOMAIN allowed_funcs
                THEN math_result = allowed_funcs[id] /\ ret_at = "L71"
            ELSE IF id \in DOMAIN constants
                THEN math_result = constants[id] /\ ret_at = "L71"
            ELSE math_result = NoneV /\ ret_at = "L73"

\* C3 witness: gcd, assigned 2 earlier, evaluates to 2 and not to math.gcd.
C3_Witness ==
    /\ pc = "dispatch"
    /\ user_input = <<"g", "c", "d">>
    /\ "gcd" \in DOMAIN variables
    /\ math_result = IntV(2)

\* C4: after an assignment whose right-hand side evaluated, the table binds the
\* target to that value and the statement's value is that value; the name
\* evaluates to the value of its last such assignment in every later state;
\* x = 5 and then x + 1 gives 6.
C4_AssignmentBinds ==
    /\ \A name \in DOMAIN assigned :
          /\ name \in DOMAIN variables
          /\ variables[name] = assigned[name]
          /\ safe_eval_expr(Name(name), variables).v = assigned[name]
    /\ (pc = "solve" /\ idx > 1 /\ body[idx - 1].type = "Assign") =>
          /\ result = variables[body[idx - 1].targets[1].id]
          /\ result = evaluated[idx - 1]
    /\ (pc = "dispatch" /\ user_input = <<"x", "+", "1">>
            /\ "x" \in DOMAIN assigned /\ assigned["x"] = IntV(5)) =>
          math_result = IntV(6)

\* C4 witness: x + 1 gave 6 after x = 5.
C4_Witness ==
    /\ pc = "dispatch"
    /\ user_input = <<"x", "+", "1">>
    /\ "x" \in DOMAIN variables /\ variables["x"] = IntV(5)
    /\ math_result = IntV(6)

\* C5: when every statement of a line succeeds, all of them were evaluated, in
\* order, each in the table left by the ones before it, and the function
\* returns the value of the last: y=1;x=y+1;x*y evaluates to 1, 2, 2 and
\* returns 2 whatever x and y were before.
C5_LastStatementValue ==
    /\ (pc = "dispatch" /\ ret_at = "L71" /\ Len(body) >= 1) =>
          /\ Len(evaluated) = Len(body)
          /\ math_result = evaluated[Len(body)]
    /\ (pc = "dispatch"
          /\ user_input = <<"y", "=", "1", ";", "x", "=", "y", "+", "1", ";", "x", "*", "y">>) =>
          /\ evaluated = <<IntV(1), IntV(2), IntV(2)>>
          /\ math_result = IntV(2)
          /\ ret_at = "L71"

\* C5 witness: the three-statement line, typed second, returned 2.
C5_Witness ==
    /\ pc = "dispatch"
    /\ user_input = <<"y", "=", "1", ";", "x", "=", "y", "+", "1", ";", "x", "*", "y">>
    /\ assigned["x"] = IntV(2)
    /\ turns = 2
    /\ math_result = IntV(2)

\* C6: the teach-me prompt is shown only when the evaluator returned None and no
\* stored question is a close match of the line; with a close match the stored
\* answer is printed instead.
C6_TeachOnlyWithoutMatch ==
    pc = "teach" =>
        /\ math_result = NoneV
        /\ get_close_matches(user_input, Questions(knowledge_base)) = <<>>

\* C7: at the teach-me prompt, `skip` in any case leaves the knowledge base and
\* the file as they were; any other answer appends the one entry
\* [user_input, new_answer] after the entries there were, and the file then
\* holds the knowledge base.
C7_TeachAppendsAndSaves ==
    [][pc = "teach" =>
          IF Lower(new_answer') = <<"s", "k", "i", "p">>
          THEN knowledge_base' = knowledge_base /\ file' = file
          ELSE /\ Len(knowledge_base') = Len(knowledge_base) + 1
               /\ SubSeq(knowledge_base', 1, Len(knowledge_base)) = knowledge_base
               /\ knowledge_base'[Len(knowledge_base')] = Entry(user_input, new_answer')
               /\ file'.exists
               /\ file'.data = knowledge_base']_vars

\* C7 witness: an entry was learned after the two the file held.
C7_Witness ==
    /\ output.kind = "learned"
    /\ Len(knowledge_base) = 3
    /\ knowledge_base[3] = Entry(user_input, new_answer)
    /\ file.data = knowledge_base

\* C8: the lookup returns the answer of the first entry, in stored order, whose
\* question is the one asked, and None when there is none.
C8_FirstMatchingEntry ==
    pc = "looked" =>
        LET hits == {i \in DOMAIN knowledge_base :
                        knowledge_base[i].question = user_input}
        IN  IF hits = {} THEN output.text = NoneT
            ELSE output.text =
                    SomeT(knowledge_base[CHOOSE i \in hits : \A j \in hits : i <= j].answer)

\* C8 witness: two entries with the question asked and different answers; the
\* first one's answer came back.
C8_Witness ==
    /\ pc = "looked"
    /\ Len(knowledge_base) = 2
    /\ knowledge_base[1].question = user_input
    /\ knowledge_base[2].question = user_input
    /\ knowledge_base[1].answer # knowledge_base[2].answer
    /\ output.text = SomeT(knowledge_base[1].answer)

\* C9: the table is empty at first; a step changes it only by running an
\* assignment to one simple name whose right-hand side evaluates, and then only
\* by binding that name to that value; every key was the target of such an
\* assignment.
C9_TableChangedOnlyByAssignment ==
    /\ variables = EmptyTable
    /\ [](DOMAIN variables = DOMAIN assigned)
    /\ [][variables' # variables =>
            /\ pc = "solve" /\ idx <= Len(body)
            /\ body[idx].type = "Assign"
            /\ Len(body[idx].targets) = 1
            /\ body[idx].targets[1].type = "Name"
            /\ ~IsExc(StmtValue(body[idx], variables))
            /\ variables' = (body[idx].targets[1].id :> StmtValue(body[idx], variables))
                            @@ variables]_vars

\* C9 witness: x = zz failed and left the binding of x made before it.
C9_Witness ==
    /\ pc = "dispatch"
    /\ user_input = <<"x", "=", "z", "z">>
    /\ ret_at = "L73"
    /\ variables = ("x" :> IntV(5))

\* C10: when statement k of a line fails or is rejected, the bindings of the
\* assignments before it stay, no later statement is evaluated, and the line
\* reports no math result.
C10_NoRollbackNoResult ==
    (pc = "dispatch" /\ ret_at \in {"L63", "L70", "L73"} /\ Len(body) >= 2) =>
        /\ Len(evaluated) = idx - 1
        /\ \A name \in DOMAIN assigned : variables[name] = assigned[name]
        /\ math_result = NoneV

=============================================================================
